---- MODULE Spec2Model ----
(***************************************************************************)
(* A model of the tag-based chatbot framework of oxycsbot.py: the ChatBot  *)
(* engine (construction, validation, go_to_state, respond, finish, and the *)
(* phrase tagger _get_tags) and the oxycsbot dialogue script built on it.  *)
(*                                                                         *)
(* Python strings that the code inspects character by character (messages *)
(* and table phrases) are sequences of one-character strings.  State       *)
(* names, tag names, manners and response texts are only compared or       *)
(* concatenated into attribute names, and are TLA+ strings.                *)
(***************************************************************************)
EXTENDS Integers, Sequences, FiniteSets, TLC

(***************************************************************************)
(* Bounds of the model.                                                    *)
(***************************************************************************)
\* a message is at most MaxWords words of Words, joined by single spaces
MaxWords == 2

\* a message sent to probe the tagger is at most MaxTagWords words of TagWords
MaxTagWords == 2

\* a message sent to one of two engines is at most MaxPairWords words of
\* PairWords
MaxPairWords == 1

\* F applied to the value of e, which is computed once (a local variable)
With(e, F(_)) == CHOOSE r \in {F(x) : x \in {e}} : TRUE

(***************************************************************************)
(* Characters, str.lower() and the regular expressions of _get_tags.       *)
(***************************************************************************)
LowerLetters ==
    {"a", "b", "c", "d", "e", "f", "g", "h", "i", "j", "k", "l", "m",
     "n", "o", "p", "q", "r", "s", "t", "u", "v", "w", "x", "y", "z"}

UpperToLower ==
    ("A" :> "a") @@ ("B" :> "b") @@ ("C" :> "c") @@ ("D" :> "d") @@
    ("E" :> "e") @@ ("F" :> "f") @@ ("G" :> "g") @@ ("H" :> "h") @@
    ("I" :> "i") @@ ("J" :> "j") @@ ("K" :> "k") @@ ("L" :> "l") @@
    ("M" :> "m") @@ ("N" :> "n") @@ ("O" :> "o") @@ ("P" :> "p") @@
    ("Q" :> "q") @@ ("R" :> "r") @@ ("S" :> "s") @@ ("T" :> "t") @@
    ("U" :> "u") @@ ("V" :> "v") @@ ("W" :> "w") @@ ("X" :> "x") @@
    ("Y" :> "y") @@ ("Z" :> "z")

Digits == {"0", "1", "2", "3", "4", "5", "6", "7", "8", "9"}

\* the characters the regular expression class \w accepts (ASCII part)
WordChars == LowerLetters \cup DOMAIN UpperToLower \cup Digits \cup {"_"}

\* str.lower(): upper-case letters are mapped, every other character is kept
lower(s) ==
    [i \in 1..Len(s) |-> IF s[i] \in DOMAIN UpperToLower
                         THEN UpperToLower[s[i]] ELSE s[i]]

\* \b at offset i of msg (0 = before the first character): exactly one of
\* the characters on the two sides of the offset is a word character
WordBoundary(msg, i) ==
    LET before == i >= 1 /\ msg[i] \in WordChars
        after  == i < Len(msg) /\ msg[i + 1] \in WordChars
    IN  before # after

\* The pattern text between the two \b, compiled: every character is a
\* literal, except that "?" makes the character before it optional.  Table
\* phrases are drawn from letters, digits, space, apostrophe and "?", with
\* no "?" in first position and no "??"; no other metacharacter occurs.
RECURSIVE CompileFrom(_, _)
CompileFrom(pattern, k) ==
    IF k > Len(pattern) THEN <<>>
    ELSE IF k < Len(pattern) /\ pattern[k + 1] = "?"
         THEN <<[c |-> pattern[k], opt |-> TRUE]>> \o CompileFrom(pattern, k + 2)
         ELSE <<[c |-> pattern[k], opt |-> FALSE]>> \o CompileFrom(pattern, k + 1)

Compile(pattern) == CompileFrom(pattern, 1)

\* the offsets at which a match of atoms k.. that starts at offset i can end
RECURSIVE MatchEnds(_, _, _, _)
MatchEnds(atoms, k, msg, i) ==
    IF k > Len(atoms) THEN {i}
    ELSE (IF i < Len(msg) /\ msg[i + 1] = atoms[k].c
          THEN MatchEnds(atoms, k + 1, msg, i + 1) ELSE {})
         \cup
         (IF atoms[k].opt THEN MatchEnds(atoms, k + 1, msg, i) ELSE {})

\* a variant of the search whose pattern lacks the two \b
re_search_anywhere(pattern, msg) ==
    \E atoms \in {Compile(pattern)} :
        \E i \in 0..Len(msg) : MatchEnds(atoms, 1, msg, i) # {}

\* re.search(r'\b' + pattern + r'\b', msg) finds a match
re_search(pattern, msg) ==
    \E atoms \in {Compile(pattern)} :
        \E i \in 0..Len(msg) :
            /\ WordBoundary(msg, i)
            /\ \E j \in MatchEnds(atoms, 1, msg, i) : WordBoundary(msg, j)

(***************************************************************************)
(* Tag tables.  A table is the sequence of the dict's items in insertion   *)
(* order; a value is tagged with its Python type.                          *)
(***************************************************************************)
Str(t)   == [type |-> "str",   v |-> <<t>>]
List(ts) == [type |-> "list",  v |-> ts]
Tuple(ts) == [type |-> "tuple", v |-> ts]
\* a value that is neither a str nor a list nor a tuple (None, an int, ...)
Other    == [type |-> "other", v |-> <<>>]
\* a list whose elements are ints, not strs; v holds the elements as
\* str() shows them
ListOfInt(ts) == [type |-> "list", v |-> ts, elem |-> "int"]

\* the dict a literal with these items evaluates to: the items are stored
\* in order, and storing a key that is present replaces its value and
\* leaves its position
DictLiteral(items) ==
    LET first == {i \in 1..Len(items) :
                     \A j \in 1..(i - 1) : items[j].phrase # items[i].phrase}
        last(i) == CHOOSE j \in i..Len(items) :
                       /\ items[j].phrase = items[i].phrase
                       /\ \A k \in (j + 1)..Len(items) :
                              items[k].phrase # items[i].phrase
        RECURSIVE from(_)
        from(i) == IF i > Len(items) THEN <<>>
                   ELSE (IF i \in first THEN <<items[last(i)]>> ELSE <<>>)
                        \o from(i + 1)
    IN  from(1)

\* collections.Counter: a function from the keys counted so far to counts
EmptyCounter == [t \in {} |-> 0]

\* a variant of Counter.update that counts the first tag of the list only
CounterUpdate_first_only(counter, tags) ==
    IF tags = <<>> THEN counter
    ELSE LET t == Head(tags)
             c == IF t \in DOMAIN counter THEN counter[t] ELSE 0
         IN  [u \in DOMAIN counter \cup {t} |->
                 IF u = t THEN c + 1 ELSE counter[u]]

\* Counter.update(tags) for a list or tuple of tags: one per element
RECURSIVE CounterUpdate(_, _)
CounterUpdate(counter, tags) ==
    IF tags = <<>> THEN counter
    ELSE LET Add(cnt) ==
                 LET t == Head(tags)
                     c == IF t \in DOMAIN cnt THEN cnt[t] ELSE 0
                 IN  [u \in DOMAIN cnt \cup {t} |->
                         IF u = t THEN c + 1 ELSE cnt[u]]
         IN  With(With(counter, Add),
                  LAMBDA cnt : CounterUpdate(cnt, Tail(tags)))

\* counter.update(tags) for entries[k], entries[k + 1], ... in turn
RECURSIVE UpdateFrom(_, _, _)
UpdateFrom(counter, entries, k) ==
    IF k > Len(entries) THEN counter
    ELSE With(CounterUpdate(counter, entries[k].tags.v),
              LAMBDA cnt : UpdateFrom(cnt, entries, k + 1))

\* a variant of _get_tags that counts a phrase again when it is found at a
\* second place of the message
_get_tags_per_occurrence(table, message) ==
    LET Tag(msg) ==
            LET At(entry) ==
                    {i \in 0..Len(msg) :
                        /\ WordBoundary(msg, i)
                        /\ \E j \in MatchEnds(Compile(lower(entry.phrase)),
                                              1, msg, i) :
                               WordBoundary(msg, j)}
                Found(entry) == At(entry) # {}
                Again(entry) == Cardinality(At(entry)) > 1
                Count(found) == UpdateFrom(EmptyCounter, found, 1)
            IN  With(SelectSeq(table, Found) \o SelectSeq(table, Again), Count)
    IN  With(lower(message), Tag)

\* a variant of _get_tags that lower-cases neither the message nor the phrase
_get_tags_case_sensitive(table, message) ==
    LET Found(entry) == re_search(entry.phrase, message)
        Count(found) == UpdateFrom(EmptyCounter, found, 1)
    IN  With(SelectSeq(table, Found), Count)

\* ChatBot._get_tags: the loop over the items of the table updates the
\* counter with the tags of every phrase that re.search finds in the
\* lower-cased message, in table order.  The values of the table are lists
\* or tuples, which is what _check_tags leaves in every constructed engine.
_get_tags(table, message) ==
    LET Tag(msg) ==
            LET Found(entry) == re_search(lower(entry.phrase), msg)
                Count(found) == UpdateFrom(EmptyCounter, found, 1)
            IN  With(SelectSeq(table, Found), Count)
    IN  With(lower(message), Tag)

(***************************************************************************)
(* What a hook body does: every hook of the scripts below is a single      *)
(* return statement that returns a text, or the value of a call of         *)
(* go_to_state, or the value of a call of finish.                          *)
(***************************************************************************)
ReturnText(text)      == [do |-> "return",      arg |-> text]
ReturnGoToState(s)    == [do |-> "go_to_state", arg |-> s]
ReturnFinish(manner)  == [do |-> "finish",      arg |-> manner]

(***************************************************************************)
(* class oxycsbot(ChatBot)                                                 *)
(***************************************************************************)
oxycsbot_STATES ==
    <<"waiting", "thoughts_1", "thoughts_2", "increase_reason_1",
      "increase_reason_2", "unknown_benefit_1", "unknown_benefit_2">>

\* the items of the TAGS literal, in source order
oxycsbot_TAGS_items ==
    <<
        [phrase |-> <<"H", "e", "l", "l", "o">>, tags |-> Str("hello")],
        [phrase |-> <<"h", "e", "y">>, tags |-> Str("hello")],
        [phrase |-> <<"h", "i">>, tags |-> Str("hello")],
        [phrase |-> <<"w", "h", "a", "t", "'", "s", "u", "p">>, tags |-> Str("hello")],
        [phrase |-> <<"w", "h", "a", "t", "s", " ", "u", "p">>, tags |-> Str("hello")],
        [phrase |-> <<"w", "h", "a", "t", "s", " ", "u", "p", "?">>, tags |-> Str("hello")],
        [phrase |-> <<"h", "e", "l", "l", "o">>, tags |-> Str("hello")],
        [phrase |-> <<"t", "h", "a", "n", "k", "s">>, tags |-> Str("thanks")],
        [phrase |-> <<"o", "k", "a", "y">>, tags |-> Str("success")],
        [phrase |-> <<"b", "y", "e">>, tags |-> Str("success")],
        [phrase |-> <<"y", "e", "s">>, tags |-> Str("yes")],
        [phrase |-> <<"y", "e", "p">>, tags |-> Str("yes")],
        [phrase |-> <<"n", "o">>, tags |-> Str("no")],
        [phrase |-> <<"n", "o", "p", "e">>, tags |-> Str("no")],
        [phrase |-> <<"o", "k">>, tags |-> Str("yes")],
        [phrase |-> <<"o", "k", "a", "y">>, tags |-> Str("yes")],
        [phrase |-> <<"s", "o", "u", "n", "d", "s", " ", "g", "o", "o", "d">>, tags |-> Str("yes")],
        [phrase |-> <<"y", "e", "s">>, tags |-> Str("yes")],
        [phrase |-> <<"a", "l", "l", " ", "r", "i", "g", "h", "t">>, tags |-> Str("yes")],
        [phrase |-> <<"v", "e", "r", "y", " ", "w", "e", "l", "l">>, tags |-> Str("yes")],
        [phrase |-> <<"o", "f", " ", "c", "o", "u", "r", "s", "e">>, tags |-> Str("yes")],
        [phrase |-> <<"b", "y", " ", "a", "l", "l", " ", "m", "e", "a", "n", "s">>, tags |-> Str("yes")],
        [phrase |-> <<"s", "u", "r", "e">>, tags |-> Str("yes")],
        [phrase |-> <<"c", "e", "r", "t", "a", "i", "n", "l", "y">>, tags |-> Str("yes")],
        [phrase |-> <<"a", "b", "s", "o", "l", "u", "t", "e", "l", "y">>, tags |-> Str("yes")],
        [phrase |-> <<"i", "n", "d", "e", "e", "d">>, tags |-> Str("yes")],
        [phrase |-> <<"r", "i", "g", "h", "t">>, tags |-> Str("yes")],
        [phrase |-> <<"a", "f", "f", "i", "r", "m", "a", "t", "i", "v", "e">>, tags |-> Str("yes")],
        [phrase |-> <<"a", "g", "r", "e", "e", "d">>, tags |-> Str("yes")],
        [phrase |-> <<"n", "o">>, tags |-> Str("no")],
        [phrase |-> <<"n", "o", "p", "e">>, tags |-> Str("no")],
        [phrase |-> <<"a", "b", "s", "o", "l", "u", "t", "e", "l", "y", " ", "n", "o", "t">>, tags |-> Str("no")],
        [phrase |-> <<"m", "o", "s", "t", " ", "c", "e", "r", "t", "a", "i", "n", "l", "y", " ", "n", "o", "t">>, tags |-> Str("no")],
        [phrase |-> <<"o", "f", " ", "c", "o", "u", "r", "s", "e", " ", "n", "o", "t">>, tags |-> Str("no")],
        [phrase |-> <<"u", "n", "d", "e", "r", " ", "n", "o", " ", "c", "i", "r", "c", "u", "m", "s", "t", "a", "n", "c", "e", "s">>, tags |-> Str("no")],
        [phrase |-> <<"b", "y", " ", "n", "o", " ", "m", "e", "a", "n", "s">>, tags |-> Str("no")],
        [phrase |-> <<"n", "o", "t", " ", "a", "t", " ", "a", "l", "l">>, tags |-> Str("no")],
        [phrase |-> <<"n", "e", "g", "a", "t", "i", "v", "e">>, tags |-> Str("no")],
        [phrase |-> <<"n", "e", "v", "e", "r">>, tags |-> Str("no")],
        [phrase |-> <<"n", "o", "t", " ", "r", "e", "a", "l", "l", "y">>, tags |-> Str("no")]
    >>

oxycsbot_TAGS == DictLiteral(oxycsbot_TAGS_items)

\* a variant of respond_from_waiting that finishes in the wrong manner
respond_from_waiting_confused(tags) ==
    IF "hello" \in DOMAIN tags
    THEN ReturnGoToState("thoughts_1")
    ELSE ReturnFinish("confused")

respond_from_waiting(tags) ==
    IF "hello" \in DOMAIN tags
    THEN ReturnGoToState("thoughts_1")
    ELSE ReturnFinish("hello")

on_enter_thoughts_1 ==
    ReturnText("Hello boss, I would like to discuss increasing my salary. Can I discuss this with you?")

\* a variant of respond_from_thoughts_1 that tests 'no' before 'yes'
respond_from_thoughts_1_no_first(tags) ==
    IF "no" \in DOMAIN tags THEN ReturnGoToState("thoughts_2")
    ELSE IF "yes" \in DOMAIN tags THEN ReturnGoToState("increase_reason_1")
    ELSE ReturnGoToState("unknown_benefit_1")

respond_from_thoughts_1(tags) ==
    IF "yes" \in DOMAIN tags THEN ReturnGoToState("increase_reason_1")
    ELSE IF "no" \in DOMAIN tags THEN ReturnGoToState("thoughts_2")
    ELSE ReturnGoToState("unknown_benefit_1")

on_enter_increase_reason_1 ==
    ReturnText("I believe that I deserve an increase in salary because for the past year I have consistently submit top quality work benefitting the company image and stock value. So what do you think?")

\* a variant of respond_from_increase_reason_1 that finishes in the manner
\* 'thanks', whose hook finish_thanks is commented out
respond_from_increase_reason_1_thanks(tags) ==
    IF "yes" \in DOMAIN tags THEN ReturnFinish("thanks")
    ELSE IF "no" \in DOMAIN tags THEN ReturnGoToState("thoughts_2")
    ELSE ReturnGoToState("unknown_benefit_1")

respond_from_increase_reason_1(tags) ==
    IF "yes" \in DOMAIN tags THEN ReturnFinish("success")
    ELSE IF "no" \in DOMAIN tags THEN ReturnGoToState("thoughts_2")
    ELSE ReturnGoToState("unknown_benefit_1")

on_enter_thoughts_2 ==
    ReturnText("Ok, then can I please discuss more paid time off?")

\* a variant of respond_from_thoughts_2 that does not finish on 'no'
respond_from_thoughts_2_asks_again(tags) ==
    IF "yes" \in DOMAIN tags THEN ReturnGoToState("increase_reason_2")
    ELSE ReturnGoToState("unknown_benefit_2")

respond_from_thoughts_2(tags) ==
    IF "yes" \in DOMAIN tags THEN ReturnGoToState("increase_reason_2")
    ELSE IF "no" \in DOMAIN tags THEN ReturnFinish("reject")
    ELSE ReturnGoToState("unknown_benefit_2")

on_enter_increase_reason_2 ==
    ReturnText("I believe I have worked without taking any paid time off for the past 6 months and produced top quality work consistently so I think a little break would be nice. What do you think about this?")

respond_from_increase_reason_2(tags) ==
    IF "yes" \in DOMAIN tags THEN ReturnFinish("success")
    ELSE IF "no" \in DOMAIN tags THEN ReturnFinish("reject")
    ELSE ReturnGoToState("unknown_benefit_2")

on_enter_unknown_benefit_1 == ReturnFinish("confused")

respond_from_unknown_benefit_1(tags) ==
    IF "yes" \in DOMAIN tags THEN ReturnGoToState("increase_reason_1")
    ELSE ReturnFinish("fail")

on_enter_unknown_benefit_2 == ReturnFinish("confused")

respond_from_unknown_benefit_2(tags) ==
    IF "yes" \in DOMAIN tags THEN ReturnGoToState("increase_reason_2")
    ELSE ReturnFinish("fail")

finish_confused ==
    ReturnText("I am sorry I do not understand what you are saying. Could we please get back to the topic at hand?")

finish_hello ==
    ReturnText("I am sorry I do not understand. Can you please say hello")

finish_success == ReturnText("Great, thank you so much!")

finish_fail ==
    ReturnText("I am sorry, I still do not understand what you are trying to say. Maybe we can discuss this again at a later point.")

finish_reject == ReturnText("Ok, I understand. Thank you for your time.")

\* the hook methods class oxycsbot defines
oxycsbot_methods ==
    {"respond_from_waiting",
     "on_enter_thoughts_1", "respond_from_thoughts_1",
     "on_enter_increase_reason_1", "respond_from_increase_reason_1",
     "on_enter_thoughts_2", "respond_from_thoughts_2",
     "on_enter_increase_reason_2", "respond_from_increase_reason_2",
     "on_enter_unknown_benefit_1", "respond_from_unknown_benefit_1",
     "on_enter_unknown_benefit_2", "respond_from_unknown_benefit_2",
     "finish_confused", "finish_hello", "finish_success", "finish_fail",
     "finish_reject"}

oxycsbot_call(name, tags) ==
    CASE name = "respond_from_waiting"           -> respond_from_waiting(tags)
      [] name = "on_enter_thoughts_1"            -> on_enter_thoughts_1
      [] name = "respond_from_thoughts_1"        -> respond_from_thoughts_1(tags)
      [] name = "on_enter_increase_reason_1"     -> on_enter_increase_reason_1
      [] name = "respond_from_increase_reason_1" -> respond_from_increase_reason_1(tags)
      [] name = "on_enter_thoughts_2"            -> on_enter_thoughts_2
      [] name = "respond_from_thoughts_2"        -> respond_from_thoughts_2(tags)
      [] name = "on_enter_increase_reason_2"     -> on_enter_increase_reason_2
      [] name = "respond_from_increase_reason_2" -> respond_from_increase_reason_2(tags)
      [] name = "on_enter_unknown_benefit_1"     -> on_enter_unknown_benefit_1
      [] name = "respond_from_unknown_benefit_1" -> respond_from_unknown_benefit_1(tags)
      [] name = "on_enter_unknown_benefit_2"     -> on_enter_unknown_benefit_2
      [] name = "respond_from_unknown_benefit_2" -> respond_from_unknown_benefit_2(tags)
      [] name = "finish_confused"                -> finish_confused
      [] name = "finish_hello"                   -> finish_hello
      [] name = "finish_success"                 -> finish_success
      [] name = "finish_fail"                    -> finish_fail
      [] name = "finish_reject"                  -> finish_reject

(***************************************************************************)
(* class ChatBot itself: the class attributes STATES = [] and TAGS = {}    *)
(* and no hook at all.                                                     *)
(***************************************************************************)
ChatBot_STATES == <<>>

ChatBot_TAGS == <<>>

(***************************************************************************)
(* A partially authored script, the kind of subclass the validation pass   *)
(* is written for.  It is an input of the engine, not part of oxycsbot.py: *)
(*                                                                         *)
(*   class DraftBot(ChatBot):                                              *)
(*       STATES = ['idle', 'ask', 'confirm']                               *)
(*       TAGS = {'hello': ['hello', 'greeting'], 'yes': ('yes',),          *)
(*               'no': 'no'}                                               *)
(*       def on_enter_idle(self): return 'Idle again.'                     *)
(*       def respond_from_idle(self, message, tags):                       *)
(*           if 'hello' in tags: return self.go_to_state('ask')            *)
(*           if 'yes' in tags: return self.go_to_state('confirm')          *)
(*           if 'no' in tags: return self.go_to_state('idle')              *)
(*           else: return self.finish('bye')                               *)
(*       def on_enter_ask(self): return 'What would you like?'             *)
(*       def finish_bye(self): return 'Goodbye.'                           *)
(*                                                                         *)
(* 'ask' has no response hook, 'confirm' has no hook at all, and the       *)
(* default state is the constructor's argument.                            *)
(***************************************************************************)
DraftBot_STATES == <<"idle", "ask", "confirm">>

DraftBot_TAGS ==
    DictLiteral(<<
        [phrase |-> <<"h", "e", "l", "l", "o">>, tags |-> List(<<"hello", "greeting">>)],
        [phrase |-> <<"y", "e", "s">>, tags |-> Tuple(<<"yes">>)],
        [phrase |-> <<"n", "o">>, tags |-> Str("no")]
    >>)

DraftBot_methods ==
    {"on_enter_idle", "respond_from_idle", "on_enter_ask", "finish_bye"}

DraftBot_call(name, tags) ==
    CASE name = "on_enter_idle" -> ReturnText("Idle again.")
      [] name = "respond_from_idle" ->
            IF "hello" \in DOMAIN tags THEN ReturnGoToState("ask")
            ELSE IF "yes" \in DOMAIN tags THEN ReturnGoToState("confirm")
            ELSE IF "no" \in DOMAIN tags THEN ReturnGoToState("idle")
            ELSE ReturnFinish("bye")
      [] name = "on_enter_ask" -> ReturnText("What would you like?")
      [] name = "finish_bye" -> ReturnText("Goodbye.")

(***************************************************************************)
(* Two more input scripts, for what _check_tags accepts and rejects:       *)
(*                                                                         *)
(*   class SketchBot(ChatBot):                                             *)
(*       STATES = ['idle']                                                 *)
(*       TAGS = {'hello': 'hello', 'maybe': [], 'later': [1]}              *)
(*       def respond_from_idle(self, message, tags):                       *)
(*           return self.finish('bye')                                     *)
(*       def finish_bye(self): return 'Goodbye.'                           *)
(*                                                                         *)
(*   class BrokenBot(SketchBot):                                           *)
(*       TAGS = {'hello': 'hello', 'bye': None, 'yes': 'yes'}              *)
(***************************************************************************)
SketchBot_STATES == <<"idle">>

SketchBot_TAGS ==
    DictLiteral(<<
        [phrase |-> <<"h", "e", "l", "l", "o">>, tags |-> Str("hello")],
        [phrase |-> <<"m", "a", "y", "b", "e">>, tags |-> List(<<>>)],
        [phrase |-> <<"l", "a", "t", "e", "r">>, tags |-> ListOfInt(<<"1">>)]
    >>)

SketchBot_methods == {"respond_from_idle", "finish_bye"}

SketchBot_call(name, tags) ==
    CASE name = "respond_from_idle" -> ReturnFinish("bye")
      [] name = "finish_bye" -> ReturnText("Goodbye.")

BrokenBot_TAGS ==
    DictLiteral(<<
        [phrase |-> <<"h", "e", "l", "l", "o">>, tags |-> Str("hello")],
        [phrase |-> <<"b", "y", "e">>, tags |-> Other],
        [phrase |-> <<"y", "e", "s">>, tags |-> Str("yes")]
    >>)

(***************************************************************************)
(* The classes, and attribute lookup on their instances.                   *)
(***************************************************************************)
Classes == {"ChatBot", "oxycsbot", "DraftBot", "SketchBot", "BrokenBot"}

\* cls.STATES
STATES(c) ==
    CASE c = "ChatBot"  -> ChatBot_STATES
      [] c = "oxycsbot" -> oxycsbot_STATES
      [] c = "DraftBot" -> DraftBot_STATES
      [] c \in {"SketchBot", "BrokenBot"} -> SketchBot_STATES

\* cls.TAGS as the class body leaves it
TAGS_of(c) ==
    CASE c = "ChatBot"  -> ChatBot_TAGS
      [] c = "oxycsbot" -> oxycsbot_TAGS
      [] c = "DraftBot" -> DraftBot_TAGS
      [] c = "SketchBot" -> SketchBot_TAGS
      [] c = "BrokenBot" -> BrokenBot_TAGS

\* hasattr(self, name), for the hook names the engine builds
hasattr(c, name) ==
    CASE c = "ChatBot"  -> FALSE
      [] c = "oxycsbot" -> name \in oxycsbot_methods
      [] c = "DraftBot" -> name \in DraftBot_methods
      [] c \in {"SketchBot", "BrokenBot"} -> name \in SketchBot_methods

\* getattr(self, name)(...) for a hook that exists: what its body does
call_method(c, name, tags) ==
    CASE c = "oxycsbot" -> oxycsbot_call(name, tags)
      [] c = "DraftBot" -> DraftBot_call(name, tags)
      [] c \in {"SketchBot", "BrokenBot"} -> SketchBot_call(name, tags)

\* the default_state argument the constructor of the class is given:
\* oxycsbot.__init__ passes 'waiting'; the other classes take the caller's
DefaultArgs(c) ==
    CASE c = "ChatBot"  -> {"waiting"}
      [] c = "oxycsbot" -> {"waiting"}
      [] c = "DraftBot" -> {"idle", "confirm", "home"}
      [] c \in {"SketchBot", "BrokenBot"} -> {"idle"}

\* range of a sequence
Range(s) == {s[i] : i \in 1..Len(s)}

(***************************************************************************)
(* The state of the program.                                               *)
(***************************************************************************)
VARIABLES
    cls,            \* cls[o]: the class of engine object o
    phase,          \* phase[o]: "class" before __init__ has run, then
                    \*           "ready", or "failed" when __init__ raised
    default_state,  \* default_state[o]: self.default_state
    state,          \* state[o]: self.state
    TAGS,           \* TAGS[c]: the class attribute TAGS of class c
    warnings,       \* the WARNING lines printed so far
    stack,          \* the call stack, innermost frame last
    result,         \* how the call that ended last ended: its return value
                    \* or the exception it raised
    event,          \* what the last step did
    lastFinish,     \* lastFinish[o]: the finish call that completed since
                    \*   the last response hook of o started, if any
    lastGo,         \* lastGo[o]: the state the last response hook of o
                    \*   moved to with go_to_state, if no call came after
    lastEntry,      \* lastEntry[o]: the entry hook of o that returned last
                    \*   and the text it returned
    declined,       \* declined[o]: how many respond calls in a row, up to
                    \*   2, returned for a message tagged 'no' and neither
                    \*   'yes' nor 'hello'
    alone,          \* alone[o]: the state that the calls made on o so far
                    \*   leave an engine in that no other engine runs beside
    expected,       \* expected[o]: how the last call on o ends in such an
                    \*   engine
    raised          \* raised[o]: the last call on o raised, and the
                    \*   exception has reached its caller

vars == <<cls, phase, default_state, state, TAGS, warnings, stack, result,
          event, lastFinish, lastGo, lastEntry, declined, alone, expected,
          raised>>

\* the variables that only record what happened
history == <<lastFinish, lastGo, lastEntry, declined>>

\* the variables that follow an engine that runs alone
reference == <<alone, expected>>

\* the value of an attribute that was never assigned, and of "nothing"
None == "None"

Objects == DOMAIN cls

NoResult == [kind |-> "none", val |-> None]
Returned(v) == [kind |-> "return", val |-> v]
Raised(exc) == [kind |-> "raise", val |-> exc]

NoFinish == [manner |-> None, within |-> None]

NoEntry == [state |-> None, text |-> None]

\* a step of kind op (call, return, raise) taken by frame f, before which
\* self.state was st
Event(op, f, st) ==
    [op |-> op, fn |-> f.fn, pc |-> f.pc, arg |-> f.arg, self |-> f.self,
     tags |-> f.tags, st |-> st, st0 |-> f.st0]

\* a new frame of function fn of object o; st0 remembers self.state at the
\* call
Frame(fn, o, arg, msg, tags) ==
    [fn |-> fn, self |-> o, arg |-> arg, msg |-> msg, tags |-> tags,
     pc |-> "start", st0 |-> state[o]]

Top == stack[Len(stack)]

Callers == SubSeq(stack, 1, Len(stack) - 1)

\* the top frame moves on to pc and calls callee
CallFrom(pc, callee) ==
    Append(Callers, [Top EXCEPT !.pc = pc]) \o <<callee>>

(***************************************************************************)
(* The messages a caller sends.                                            *)
(***************************************************************************)
Words ==
    {<<"H", "e", "l", "l", "o">>,
     <<"x", "y", "z">>,
     <<"y", "e", "s">>,
     <<"n", "o">>,
     <<"a", "b", "s", "o", "l", "u", "t", "e", "l", "y">>,
     <<"n", "o", "t">>}

RECURSIVE MessagesOf(_)
MessagesOf(n) ==
    IF n = 0 THEN {<<>>}
    ELSE LET shorter == MessagesOf(n - 1)
         IN  shorter \cup Words
                 \cup {m \o <<" ">> \o w : m \in shorter \ {<<>>}, w \in Words}

Messages == MessagesOf(MaxWords)

\* the words of the messages that probe the tagger: both cases of a key,
\* a word that contains a key, the pieces of the phrases 'whats up' and
\* 'whats up?', and keys of several tables
TagWords ==
    {<<"h", "e", "l", "l", "o">>,
     <<"H", "E", "L", "L", "O">>,
     <<"h", "i">>,
     <<"t", "h", "i", "s">>,
     <<"w", "h", "a", "t", "s">>,
     <<"u">>,
     <<"u", "p", "?">>,
     <<"y", "e", "s">>,
     <<"o", "k", "a", "y">>}

RECURSIVE TagMessagesOf(_)
TagMessagesOf(n) ==
    IF n = 0 THEN {<<>>}
    ELSE LET shorter == TagMessagesOf(n - 1)
         IN  shorter \cup TagWords
                 \cup {m \o <<" ">> \o w : m \in shorter \ {<<>>}, w \in TagWords}

TagMessages == TagMessagesOf(MaxTagWords)

\* the words of the messages sent to two engines: one word for each of the
\* tags the response hooks look at, and one without tag
PairWords ==
    {<<"H", "e", "l", "l", "o">>,
     <<"x", "y", "z">>,
     <<"y", "e", "s">>,
     <<"n", "o">>}

RECURSIVE PairMessagesOf(_)
PairMessagesOf(n) ==
    IF n = 0 THEN {<<>>}
    ELSE LET shorter == PairMessagesOf(n - 1)
         IN  shorter \cup PairWords
                 \cup {m \o <<" ">> \o w : m \in shorter \ {<<>>}, w \in PairWords}

PairMessages == PairMessagesOf(MaxPairWords)

\* the arguments a caller passes to go_to_state and to finish
TargetArgs(o) == Range(STATES(cls[o])) \cup {default_state[o], "nowhere"}

MannerArgs == {"hello", "success", "confused", "bye", "thanks"}

(***************************************************************************)
(* Construction: ChatBot.__init__, _check_states and _check_tags.          *)
(***************************************************************************)
DefaultWarning(d, first) ==
    [kind |-> "default_state", state |-> d, name |-> first]

HookWarning(s, prefix) ==
    [kind |-> "no_function", state |-> s, name |-> prefix \o "_" \o s]

\* a variant of the inner loop that requires an entry hook of the default
\* state too
_check_state_default_too(c, d, s) ==
    LET prefixes == <<"on_enter", "respond_from">>
        Missing(prefix) == ~ hasattr(c, prefix \o "_" \o s)
        missing == SelectSeq(prefixes, Missing)
    IN  [i \in 1..Len(missing) |-> HookWarning(s, missing[i])]

\* the inner loop of _check_states for one state
_check_state(c, d, s) ==
    LET prefixes == IF s # d THEN <<"on_enter", "respond_from">>
                    ELSE <<"respond_from">>
        Missing(prefix) == ~ hasattr(c, prefix \o "_" \o s)
        missing == SelectSeq(prefixes, Missing)
    IN  [i \in 1..Len(missing) |-> HookWarning(s, missing[i])]

\* ChatBot._check_states: the warnings it prints, in order
RECURSIVE _check_states(_, _, _)
_check_states(c, d, states) ==
    IF states = <<>> THEN <<>>
    ELSE _check_state(c, d, Head(states)) \o _check_states(c, d, Tail(states))

\* ChatBot._check_tags: the loop normalizes a str value to a one-element
\* list and stops, with an AssertionError, at the first value that is then
\* neither a tuple nor a list.  The table it leaves (the entries before the
\* stop are normalized, the others are as they were) and whether every
\* assertion held.
_check_tags(table) ==
    LET bad  == {k \in 1..Len(table) :
                    table[k].tags.type \notin {"str", "tuple", "list"}}
        stop == IF bad = {} THEN Len(table) + 1
                ELSE CHOOSE k \in bad : \A j \in bad : k <= j
    IN  [table |-> [k \in 1..Len(table) |->
                       IF k < stop /\ table[k].tags.type = "str"
                       THEN [table[k] EXCEPT !.tags = List(table[k].tags.v)]
                       ELSE table[k]],
         ok |-> bad = {}]

\* ChatBot.__init__(default_state = d) on object o
__init__(o, d) ==
    LET c      == cls[o]
        absent == d \notin Range(STATES(c))
        checked == _check_tags(TAGS[c])
    IN  IF absent /\ STATES(c) = <<>>
        THEN \* self.STATES[0] raises while the warning is being built
             /\ phase' = [phase EXCEPT ![o] = "failed"]
             /\ result' = Raised("IndexError")
             /\ UNCHANGED <<default_state, state, TAGS, warnings>>
        ELSE /\ default_state' = [default_state EXCEPT ![o] = d]
             /\ state' = [state EXCEPT ![o] = d]
             /\ warnings' = warnings
                    \o (IF absent THEN <<DefaultWarning(d, STATES(c)[1])>>
                        ELSE <<>>)
                    \o _check_states(c, d, STATES(c))
             /\ TAGS' = [TAGS EXCEPT ![c] = checked.table]
             /\ phase' = [phase EXCEPT ![o] = IF checked.ok THEN "ready"
                                              ELSE "failed"]
             /\ result' = IF checked.ok THEN NoResult
                          ELSE Raised("AssertionError")

\* a caller constructs object o
Construct ==
    \E o \in Objects : \E d \in DefaultArgs(cls[o]) :
        /\ phase[o] = "class"
        /\ stack = <<>>
        /\ __init__(o, d)
        /\ event' = Event("construct",
                           Frame("__init__", o, d, <<>>, EmptyCounter), state[o])
        /\ alone' = [alone EXCEPT ![o] = state'[o]]
        /\ expected' = [expected EXCEPT ![o] = result']
        /\ UNCHANGED <<cls, stack, history, raised>>

(***************************************************************************)
(* Calls from outside the engine: the session loop calls respond; a test   *)
(* harness may also call the two transition primitives directly.           *)
(***************************************************************************)
Idle(o) == phase[o] = "ready" /\ stack = <<>>

\* A call as it runs in an engine that is alone, in one piece: what "return
\* <text>", "return self.go_to_state(<state>)" or "return self.finish(
\* <manner>)" does in an engine of class c with default state d and current
\* state st; the state it leaves and the value it returns or the exception
\* it raises.
RECURSIVE run_alone(_, _, _, _)
run_alone(c, d, body, st) ==
    LET \* the hook called name runs, then self.state = to
        After(name, to) ==
            LET Assign(r) == IF r.res.kind = "raise" THEN r
                             ELSE [st |-> to, res |-> r.res]
                Call(hook) == With(run_alone(c, d, hook, st), Assign)
            IN  With(call_method(c, name, EmptyCounter), Call)
    IN  CASE body.do = "return" -> [st |-> st, res |-> Returned(body.arg)]
          [] body.do = "go_to_state" ->
                IF body.arg \notin Range(STATES(c)) \/ body.arg = d
                THEN [st |-> st, res |-> Raised("AssertionError")]
                ELSE IF ~ hasattr(c, "on_enter_" \o body.arg)
                THEN [st |-> st, res |-> Raised("AttributeError")]
                ELSE After("on_enter_" \o body.arg, body.arg)
          [] body.do = "finish" ->
                IF ~ hasattr(c, "finish_" \o body.arg)
                THEN [st |-> st, res |-> Raised("AttributeError")]
                ELSE After("finish_" \o body.arg, d)

\* respond(message) in such an engine, whose tag table is table
respond_alone(c, d, table, st, message) ==
    IF ~ hasattr(c, "respond_from_" \o st)
    THEN [st |-> st, res |-> Raised("AttributeError")]
    ELSE LET Call(hook) == run_alone(c, d, hook, st)
             Dispatch(tags) ==
                 With(call_method(c, "respond_from_" \o st, tags), Call)
         IN  With(_get_tags(table, message), Dispatch)

\* a caller calls o.respond(m)
CallRespondWith(o, m) ==
    /\ Idle(o)
    /\ stack' = <<Frame("respond", o, None, m, EmptyCounter)>>
    /\ event' = Event("call", Frame("caller", o, "respond", m, EmptyCounter),
                      state[o])
    /\ result' = NoResult
    /\ raised' = [raised EXCEPT ![o] = FALSE]
    /\ \E r \in {respond_alone(cls[o], default_state[o], TAGS[cls[o]],
                                alone[o], m)} :
           /\ alone' = [alone EXCEPT ![o] = r.st]
           /\ expected' = [expected EXCEPT ![o] = r.res]
    /\ UNCHANGED <<cls, phase, default_state, state, TAGS, warnings,
                   history>>

\* a caller that goes on after an exception (a test harness) calls respond
CallRespond ==
    \E o \in Objects : \E m \in Messages : CallRespondWith(o, m)

\* the lines that end the loop of chat()
ExitLines == {<<"e", "x", "i", "t">>, <<"q", "u", "i", "t">>}

\* the loop of chat() calls respond with the line it has read, unless the
\* line is 'exit' or 'quit' in any case; an exception raised by respond is
\* not caught in chat(), whose loop it ends: no line is read after it
ChatRespondWith(o, m) ==
    /\ ~ raised[o]
    /\ lower(m) \notin ExitLines
    /\ CallRespondWith(o, m)

ChatRespond ==
    \E o \in Objects : \E m \in Messages : ChatRespondWith(o, m)

\* the chat() loop of one of two engines calls respond
CallRespondPair ==
    \E o \in Objects : \E m \in PairMessages : ChatRespondWith(o, m)

\* chat() calls respond with a line that probes the tagger
CallRespondTag ==
    \E o \in Objects : \E m \in TagMessages : ChatRespondWith(o, m)

\* a direct call of a transition primitive ends the exchange that the
\* history variables describe
CallPrimitive(o, fn, arg) ==
    /\ Idle(o)
    /\ stack' = <<Frame(fn, o, arg, <<>>, EmptyCounter)>>
    /\ event' = Event("call", Frame("caller", o, fn, <<>>, EmptyCounter),
                      state[o])
    /\ result' = NoResult
    /\ raised' = [raised EXCEPT ![o] = FALSE]
    /\ lastFinish' = [lastFinish EXCEPT ![o] = NoFinish]
    /\ lastGo' = [lastGo EXCEPT ![o] = None]
    /\ declined' = [declined EXCEPT ![o] = 0]
    /\ \E r \in {run_alone(cls[o], default_state[o],
                            [do |-> fn, arg |-> arg], alone[o])} :
           /\ alone' = [alone EXCEPT ![o] = r.st]
           /\ expected' = [expected EXCEPT ![o] = r.res]
    /\ UNCHANGED <<cls, phase, default_state, state, TAGS, warnings,
                   lastEntry>>

CallGoToState ==
    \E o \in Objects : \E target \in TargetArgs(o) :
        CallPrimitive(o, "go_to_state", target)

CallFinish ==
    \E o \in Objects : \E manner \in MannerArgs :
        CallPrimitive(o, "finish", manner)

(***************************************************************************)
(* The steps of the engine.  Only the innermost frame runs.  An exception  *)
(* is caught nowhere in the engine: it unwinds the whole stack and reaches *)
(* the caller.                                                             *)
(***************************************************************************)
Running(fn, pc) == stack # <<>> /\ Top.fn = fn /\ Top.pc = pc

\* frame f raises exc
Raise(exc, f) ==
    /\ stack' = <<>>
    /\ result' = Raised(exc)
    /\ event' = Event("raise", f, state[f.self])
    /\ declined' = [declined EXCEPT ![f.self] = 0]
    /\ raised' = [raised EXCEPT ![f.self] = TRUE]

\* a variant of respond that falls back to the default state when the current
\* state has no response hook
respond_falls_back ==
    /\ Running("respond", "start")
    /\ LET o    == Top.self
           name == "respond_from_" \o state[o]
       IN  IF ~ hasattr(cls[o], name)
           THEN /\ Raise("AttributeError", [Top EXCEPT !.arg = state[o]])
                /\ state' = [state EXCEPT ![o] = default_state[o]]
           ELSE \E tags \in {_get_tags(TAGS[cls[o]], Top.msg)} :
                LET f == [Top EXCEPT !.arg = state[o], !.tags = tags]
                IN  /\ stack' = Append(Callers, [f EXCEPT !.pc = "return"])
                          \o <<Frame("respond_from", o, state[o], Top.msg, tags)>>
                    /\ event' = Event("call", f, state[o])
                    /\ UNCHANGED <<result, declined, raised, state>>
    /\ UNCHANGED <<cls, reference, phase, default_state, TAGS, warnings,
                   lastFinish, lastGo, lastEntry>>

\* a variant of respond that looks up the response hook of the default state
respond_from_default ==
    /\ Running("respond", "start")
    /\ LET o    == Top.self
           name == "respond_from_" \o default_state[o]
       IN  IF ~ hasattr(cls[o], name)
           THEN Raise("AttributeError", [Top EXCEPT !.arg = default_state[o]])
           ELSE \E tags \in {_get_tags(TAGS[cls[o]], Top.msg)} :
                LET f == [Top EXCEPT !.arg = default_state[o], !.tags = tags]
                IN  /\ stack' = Append(Callers, [f EXCEPT !.pc = "return"])
                          \o <<Frame("respond_from", o, default_state[o],
                                     Top.msg, tags)>>
                    /\ event' = Event("call", f, state[o])
                    /\ UNCHANGED <<result, declined, raised>>
    /\ UNCHANGED <<cls, reference, phase, default_state, state, TAGS, warnings,
                   lastFinish, lastGo, lastEntry>>

\* ChatBot.respond: look up the response hook of the current state, compute
\* the tags of the message, call the hook
respond ==
    /\ Running("respond", "start")
    /\ LET o    == Top.self
           name == "respond_from_" \o state[o]
       IN  IF ~ hasattr(cls[o], name)
           THEN Raise("AttributeError", [Top EXCEPT !.arg = state[o]])
           ELSE \E tags \in {_get_tags(TAGS[cls[o]], Top.msg)} :
                LET f == [Top EXCEPT !.arg = state[o], !.tags = tags]
                IN  /\ stack' = Append(Callers, [f EXCEPT !.pc = "return"])
                          \o <<Frame("respond_from", o, state[o], Top.msg, tags)>>
                    /\ event' = Event("call", f, state[o])
                    /\ UNCHANGED <<result, declined, raised>>
    /\ UNCHANGED <<cls, reference, phase, default_state, state, TAGS, warnings,
                   lastFinish, lastGo, lastEntry>>

\* the body of a hook method, a return statement: what it leaves on the
\* stack and in result
hook_body(prefix) ==
    /\ Running(prefix, "start")
    /\ LET o    == Top.self
           body == call_method(cls[o], prefix \o "_" \o Top.arg, Top.tags)
       IN  IF body.do = "return"
           THEN /\ stack' = Callers
                /\ result' = Returned(body.arg)
                /\ event' = Event("return", Top, state[o])
           ELSE /\ stack' = CallFrom("return",
                        Frame(body.do, o, body.arg, <<>>, EmptyCounter))
                /\ event' = Event("call", Top, state[o])
                /\ UNCHANGED result

\* respond_from_<state>(message, tags) runs
respond_from ==
    /\ hook_body("respond_from")
    /\ lastFinish' = [lastFinish EXCEPT ![Top.self] = NoFinish]
    /\ lastGo' = [lastGo EXCEPT ![Top.self] = None]
    /\ UNCHANGED <<cls, reference, raised, phase, default_state, state, TAGS, warnings,
                   lastEntry, declined>>

\* on_enter_<state>() runs
on_enter ==
    /\ hook_body("on_enter")
    /\ lastEntry' = IF stack' = Callers
                    THEN [lastEntry EXCEPT ![Top.self] =
                             [state |-> Top.arg, text |-> result'.val]]
                    ELSE lastEntry
    /\ UNCHANGED <<cls, reference, raised, phase, default_state, state, TAGS, warnings,
                   lastFinish, lastGo, declined>>

\* "return <call>" in respond or in a hook: the callee's value is returned
return_value ==
    /\ stack # <<>>
    /\ Top.fn \in {"respond", "respond_from", "on_enter"}
    /\ Top.pc = "return"
    /\ stack' = Callers
    /\ event' = Event("return", Top, state[Top.self])
    /\ lastEntry' = IF Top.fn = "on_enter"
                    THEN [lastEntry EXCEPT ![Top.self] =
                             [state |-> Top.arg, text |-> result.val]]
                    ELSE lastEntry
    /\ declined' = IF Top.fn = "respond"
                   THEN [declined EXCEPT ![Top.self] =
                            IF "no" \in DOMAIN Top.tags
                               /\ "yes" \notin DOMAIN Top.tags
                               /\ "hello" \notin DOMAIN Top.tags
                            THEN (IF @ < 2 THEN @ + 1 ELSE 2)
                            ELSE 0]
                   ELSE declined
    /\ UNCHANGED <<cls, reference, raised, phase, default_state, state, TAGS, warnings, result,
                   lastFinish, lastGo>>

\* a variant of go_to_state without the assertion on the default state
go_to_state_unguarded ==
    /\ Running("go_to_state", "start")
    /\ LET o      == Top.self
           target == Top.arg
       IN  IF target \notin Range(STATES(cls[o]))
           THEN Raise("AssertionError", Top)
           ELSE IF ~ hasattr(cls[o], "on_enter_" \o target)
           THEN Raise("AttributeError", Top)
           ELSE /\ stack' = CallFrom("assign",
                        Frame("on_enter", o, target, <<>>, EmptyCounter))
                /\ event' = Event("call", Top, state[o])
                /\ UNCHANGED <<result, declined, raised>>
    /\ UNCHANGED <<cls, reference, phase, default_state, state, TAGS, warnings,
                   lastFinish, lastGo, lastEntry>>

\* a variant of go_to_state that sets the state before it calls the entry
\* hook
go_to_state_assigns_first ==
    /\ Running("go_to_state", "start")
    /\ LET o      == Top.self
           target == Top.arg
       IN  IF target \notin Range(STATES(cls[o]))
           THEN Raise("AssertionError", Top) /\ UNCHANGED state
           ELSE IF target = default_state[o]
           THEN Raise("AssertionError", Top) /\ UNCHANGED state
           ELSE IF ~ hasattr(cls[o], "on_enter_" \o target)
           THEN Raise("AttributeError", Top) /\ UNCHANGED state
           ELSE /\ state' = [state EXCEPT ![o] = target]
                /\ stack' = CallFrom("assign",
                        Frame("on_enter", o, target, <<>>, EmptyCounter))
                /\ event' = Event("call", Top, state[o])
                /\ UNCHANGED <<result, declined, raised>>
    /\ UNCHANGED <<cls, reference, phase, default_state, TAGS, warnings,
                   lastFinish, lastGo, lastEntry>>

\* ChatBot.go_to_state up to the call of the entry hook
go_to_state ==
    /\ Running("go_to_state", "start")
    /\ LET o      == Top.self
           target == Top.arg
       IN  IF target \notin Range(STATES(cls[o]))
           THEN Raise("AssertionError", Top)
           ELSE IF target = default_state[o]
           THEN Raise("AssertionError", Top)
           ELSE IF ~ hasattr(cls[o], "on_enter_" \o target)
           THEN Raise("AttributeError", Top)
           ELSE /\ stack' = CallFrom("assign",
                        Frame("on_enter", o, target, <<>>, EmptyCounter))
                /\ event' = Event("call", Top, state[o])
                /\ UNCHANGED <<result, declined, raised>>
    /\ UNCHANGED <<cls, reference, phase, default_state, state, TAGS, warnings,
                   lastFinish, lastGo, lastEntry>>

\* a variant of the end of go_to_state that returns the response and
\* forgets the assignment
go_to_state_assign_forgotten ==
    /\ Running("go_to_state", "assign")
    /\ LET o == Top.self
       IN  /\ stack' = Callers
           /\ event' = Event("return", Top, state[o])
           /\ lastGo' = IF Callers # <<>>
                           /\ Callers[Len(Callers)].fn = "respond_from"
                        THEN [lastGo EXCEPT ![o] = Top.arg]
                        ELSE lastGo
    /\ UNCHANGED <<cls, reference, raised, phase, default_state, state, TAGS, warnings, result,
                   lastFinish, lastEntry, declined>>

\* a variant of the end of go_to_state that keeps the state an entry hook
\* has set (with finish) instead of overwriting it
go_to_state_assign_unless_set ==
    /\ Running("go_to_state", "assign")
    /\ LET o == Top.self
       IN  /\ state' = IF state[o] = Top.st0
                       THEN [state EXCEPT ![o] = Top.arg]
                       ELSE state
           /\ stack' = Callers
           /\ event' = Event("return", Top, state[o])
           /\ lastGo' = IF Callers # <<>>
                           /\ Callers[Len(Callers)].fn = "respond_from"
                        THEN [lastGo EXCEPT ![o] = Top.arg]
                        ELSE lastGo
    /\ UNCHANGED <<cls, reference, raised, phase, default_state, TAGS, warnings, result,
                   lastFinish, lastEntry, declined>>

\* a variant of the end of go_to_state that assigns the state as an
\* attribute of the class, which every instance of the class then reads
go_to_state_assign_shared ==
    /\ Running("go_to_state", "assign")
    /\ LET o == Top.self
       IN  /\ state' = [p \in Objects |->
                           IF cls[p] = cls[o] /\ phase[p] = "ready"
                           THEN Top.arg ELSE state[p]]
           /\ stack' = Callers
           /\ event' = Event("return", Top, state[o])
           /\ lastGo' = IF Callers # <<>>
                           /\ Callers[Len(Callers)].fn = "respond_from"
                        THEN [lastGo EXCEPT ![o] = Top.arg]
                        ELSE lastGo
    /\ UNCHANGED <<cls, reference, raised, phase, default_state, TAGS, warnings, result,
                   lastFinish, lastEntry, declined>>

\* ChatBot.go_to_state after the entry hook has returned:
\* self.state = state; return response
go_to_state_assign ==
    /\ Running("go_to_state", "assign")
    /\ LET o == Top.self
       IN  /\ state' = [state EXCEPT ![o] = Top.arg]
           /\ stack' = Callers
           /\ event' = Event("return", Top, state[o])
           /\ lastGo' = IF Callers # <<>>
                           /\ Callers[Len(Callers)].fn = "respond_from"
                        THEN [lastGo EXCEPT ![o] = Top.arg]
                        ELSE lastGo
    /\ UNCHANGED <<cls, reference, raised, phase, default_state, TAGS, warnings, result,
                   lastFinish, lastEntry, declined>>

\* a variant of finish that resets the state before it looks up the hook
finish_resets_first ==
    /\ Running("finish", "start")
    /\ LET o    == Top.self
           name == "finish_" \o Top.arg
       IN  /\ state' = [state EXCEPT ![o] = default_state[o]]
           /\ IF ~ hasattr(cls[o], name)
              THEN Raise("AttributeError", Top)
              ELSE /\ stack' = Append(Callers, [Top EXCEPT !.pc = "assign"])
                   /\ result' = Returned(call_method(cls[o], name, EmptyCounter).arg)
                   /\ event' = Event("call", Top, state[o])
                   /\ UNCHANGED <<declined, raised>>
    /\ UNCHANGED <<cls, reference, phase, default_state, TAGS, warnings,
                   lastFinish, lastGo, lastEntry>>

\* ChatBot.finish up to the return of the completion hook:
\* response = getattr(self, 'finish_' + manner)()
finish ==
    /\ Running("finish", "start")
    /\ LET o    == Top.self
           name == "finish_" \o Top.arg
       IN  IF ~ hasattr(cls[o], name)
           THEN Raise("AttributeError", Top)
           ELSE /\ stack' = Append(Callers, [Top EXCEPT !.pc = "assign"])
                /\ result' = Returned(call_method(cls[o], name, EmptyCounter).arg)
                /\ event' = Event("call", Top, state[o])
                /\ UNCHANGED <<declined, raised>>
    /\ UNCHANGED <<cls, reference, phase, default_state, state, TAGS, warnings,
                   lastFinish, lastGo, lastEntry>>

\* the target of the go_to_state call, if any, whose entry hook the top
\* frame was called from
EnclosingGoToState ==
    LET idx == {i \in 1..Len(Callers) : Callers[i].fn = "go_to_state"}
    IN  IF idx = {} THEN None
        ELSE Callers[CHOOSE i \in idx : \A j \in idx : j <= i].arg

\* a variant of the end of finish that returns the response and leaves the
\* state as it is
finish_assign_forgotten ==
    /\ Running("finish", "assign")
    /\ LET o == Top.self
       IN  /\ stack' = Callers
           /\ event' = Event("return", Top, state[o])
           /\ lastFinish' = [lastFinish EXCEPT ![o] =
                                [manner |-> Top.arg,
                                 within |-> EnclosingGoToState]]
    /\ UNCHANGED <<cls, reference, raised, phase, default_state, state, TAGS, warnings, result,
                   lastGo, lastEntry, declined>>

\* ChatBot.finish after the completion hook has returned:
\* self.state = self.default_state; return response
finish_assign ==
    /\ Running("finish", "assign")
    /\ LET o == Top.self
       IN  /\ state' = [state EXCEPT ![o] = default_state[o]]
           /\ stack' = Callers
           /\ event' = Event("return", Top, state[o])
           /\ lastFinish' = [lastFinish EXCEPT ![o] =
                                [manner |-> Top.arg,
                                 within |-> EnclosingGoToState]]
    /\ UNCHANGED <<cls, reference, raised, phase, default_state, TAGS, warnings, result, lastGo,
                   lastEntry, declined>>

(***************************************************************************)
(* Specifications.                                                         *)
(***************************************************************************)
InitObjects(objects, classes) ==
    /\ cls \in [objects -> classes]
    /\ phase = [o \in objects |-> "class"]
    /\ default_state = [o \in objects |-> None]
    /\ state = [o \in objects |-> None]
    /\ TAGS = [c \in Classes |-> TAGS_of(c)]
    /\ warnings = <<>>
    /\ stack = <<>>
    /\ result = NoResult
    /\ event = [op |-> "none", fn |-> None, pc |-> None, arg |-> None,
                self |-> 0, tags |-> EmptyCounter, st |-> None, st0 |-> None]
    /\ lastFinish = [o \in objects |-> NoFinish]
    /\ lastGo = [o \in objects |-> None]
    /\ lastEntry = [o \in objects |-> NoEntry]
    /\ declined = [o \in objects |-> 0]
    /\ alone = [o \in objects |-> None]
    /\ expected = [o \in objects |-> NoResult]
    /\ raised = [o \in objects |-> FALSE]

\* one engine object of any of the classes, not yet constructed
Init == InitObjects({1}, Classes)

Step ==
    \/ respond
    \/ respond_from
    \/ on_enter
    \/ return_value
    \/ go_to_state
    \/ go_to_state_assign
    \/ finish
    \/ finish_assign

\* any caller: construction, respond, and direct calls of the primitives
Next ==
    \/ Construct
    \/ CallRespond
    \/ CallGoToState
    \/ CallFinish
    \/ Step

Spec == Init /\ [][Next]_vars

\* a conversation: the engine is constructed and chat() calls respond, until
\* a call raises
ConvNext ==
    \/ Construct
    \/ ChatRespond
    \/ Step

ConvSpec == Init /\ [][ConvNext]_vars

\* a conversation that goes on as long as it can: chat() calls respond again
\* after every response, and every call runs to its end
FairConvSpec == ConvSpec /\ WF_vars(ConvNext)


\* probing the tagger: engines of the two scripts that have a tag table are
\* constructed and sent the probe messages in a conversation
TagInit == InitObjects({1}, {"oxycsbot", "DraftBot"})

TagNext ==
    \/ Construct
    \/ CallRespondTag
    \/ Step

TagSpec == TagInit /\ [][TagNext]_vars

\* two conversations: two engines of the same script, which share the tag
\* table and the hooks of their class, are constructed and called in any
\* order, one call at a time; each conversation ends when a call raises
PairInit ==
    \E c \in {"oxycsbot", "DraftBot"} : InitObjects({1, 2}, {c})

PairNext ==
    \/ Construct
    \/ CallRespondPair
    \/ Step

PairSpec == PairInit /\ [][PairNext]_vars
TypeOK ==
    /\ \A o \in Objects : phase[o] \in {"class", "ready", "failed"}
    /\ result.kind \in {"none", "return", "raise"}

(***************************************************************************)
(* Properties.                                                             *)
(***************************************************************************)
\* the step taken last was the step pc of a frame of fn
Did(fn, pc) == event.fn = fn /\ event.pc = pc

IsOxycsbot(o) == cls[o] = "oxycsbot"

\* C1: when a call of finish returns, the current state of its engine is
\* the default state, whatever the current state was at the call.
C1_FinishResetsToDefault ==
    (Did("finish", "assign") /\ event.op = "return")
        => state[event.self] = default_state[event.self]

\* finish has returned, and was called in a state other than the default
C1_Witness ==
    /\ Did("finish", "assign")
    /\ event.op = "return"
    /\ event.st0 # default_state[event.self]
    /\ event.st0 # None

\* C2 as stated: after any completed finish, also one called from inside an
\* entry hook, the next respond looks up the response hook of the default
\* state.
C2_NextRespondFromDefault ==
    (Did("respond", "start") /\ lastFinish[event.self].manner # None)
        => event.arg = default_state[event.self]

\* C2 amended: after a completed finish the next respond looks up the
\* response hook of the default state, unless finish was called from inside
\* the entry hook of a state T: then go_to_state sets the state to T after
\* finish has returned, and the next respond looks up the hook of T.
C2_NextRespondAfterFinish ==
    (Did("respond", "start") /\ lastFinish[event.self].manner # None)
        => event.arg = IF lastFinish[event.self].within = None
                       THEN default_state[event.self]
                       ELSE lastFinish[event.self].within

\* respond is dispatched after finish('confused') completed inside the entry
\* hook of unknown_benefit_1
C2_Witness ==
    /\ Did("respond", "start")
    /\ event.op = "call"
    /\ IsOxycsbot(event.self)
    /\ lastFinish[event.self] = [manner |-> "confused",
                                 within |-> "unknown_benefit_1"]

\* a go_to_state call whose target is the default state or is undeclared
BadTarget(o, target) ==
    target = default_state[o] \/ target \notin Range(STATES(cls[o]))

\* C3: go_to_state with the default state or an undeclared state as target
\* fails its assertion in every current state: no entry hook is called
\* (nothing is left running) and the current state is what it was.
C3_GoToStateRejects ==
    (Did("go_to_state", "start") /\ BadTarget(event.self, event.arg))
        => /\ event.op = "raise"
           /\ result = Raised("AssertionError")
           /\ stack = <<>>
           /\ state[event.self] = event.st
           /\ state[event.self] = event.st0

\* go_to_state(default state) is rejected in a state other than the default
C3_Witness ==
    /\ Did("go_to_state", "start")
    /\ event.op = "raise"
    /\ event.arg = default_state[event.self]
    /\ event.arg \in Range(STATES(cls[event.self]))
    /\ state[event.self] # default_state[event.self]

\* C4: go_to_state calls the entry hook first and assigns after: when the
\* entry hook starts, the current state is still the one go_to_state was
\* called in; when go_to_state returns, the current state is the target and
\* the value returned is the one the entry hook returned, also when the
\* hook called finish.
C4_HookThenAssignThenReturn ==
    /\ Running("on_enter", "start")
           => /\ Callers # <<>>
              /\ Callers[Len(Callers)].fn = "go_to_state"
              /\ state[Top.self] = Callers[Len(Callers)].st0
    /\ (Did("go_to_state", "assign") /\ event.op = "return")
           => /\ state[event.self] = event.arg
              /\ lastEntry[event.self].state = event.arg
              /\ result = Returned(lastEntry[event.self].text)

\* go_to_state has returned with the state set to its target although its
\* entry hook called finish, which had reset the state to the default
C4_Witness ==
    /\ Did("go_to_state", "assign")
    /\ event.op = "return"
    /\ lastFinish[event.self].within = event.arg
    /\ event.st = default_state[event.self]
    /\ event.st0 # default_state[event.self]
    /\ state[event.self] = event.arg

\* C5: when a response hook answers with go_to_state(T), respond returns
\* what the entry hook of T returned and leaves the engine in T, and the
\* next respond looks up the response hook of T; in oxycsbot a message
\* tagged 'hello' in 'waiting' moves to 'thoughts_1'.
C5_RespondFollowsGoToState ==
    /\ (Did("respond", "return") /\ lastGo[event.self] # None)
           => /\ state[event.self] = lastGo[event.self]
              /\ lastEntry[event.self].state = lastGo[event.self]
              /\ result = Returned(lastEntry[event.self].text)
    /\ (Did("respond", "start") /\ lastGo[event.self] # None)
           => event.arg = lastGo[event.self]
    /\ (Did("respond", "return") /\ IsOxycsbot(event.self)
            /\ event.st0 = "waiting" /\ "hello" \in DOMAIN event.tags)
           => /\ lastGo[event.self] = "thoughts_1"
              /\ state[event.self] = "thoughts_1"
              /\ result = Returned(on_enter_thoughts_1.arg)

\* the second respond is dispatched through respond_from_thoughts_1
C5_Witness ==
    /\ Did("respond", "start")
    /\ event.op = "call"
    /\ IsOxycsbot(event.self)
    /\ lastGo[event.self] = "thoughts_1"
    /\ event.arg = "thoughts_1"
    /\ Top.fn = "respond_from"
    /\ Top.arg = "thoughts_1"

\* C6: in 'waiting', respond to a message whose tags lack 'hello' calls
\* finish, returns the text of finish_hello and leaves the state 'waiting'.
C6_WaitingFallback ==
    (/\ event.fn = "respond"
     /\ event.pc = "return" \/ event.op = "raise"
     /\ IsOxycsbot(event.self)
     /\ event.st0 = "waiting"
     /\ "hello" \notin DOMAIN event.tags)
        => /\ event.op = "return"
           /\ lastFinish[event.self] = [manner |-> "hello", within |-> None]
           /\ result = Returned("I am sorry I do not understand. Can you please say hello")
           /\ state[event.self] = "waiting"

\* the fallback answered a message that carries tags, none of them 'hello'
C6_Witness ==
    /\ Did("respond", "return")
    /\ IsOxycsbot(event.self)
    /\ event.st0 = "waiting"
    /\ "hello" \notin DOMAIN event.tags
    /\ "yes" \in DOMAIN event.tags
    /\ result.kind = "return"

\* the call failed for a missing attribute, and left the engine as it was
FailedUntouched ==
    /\ event.op = "raise"
    /\ result = Raised("AttributeError")
    /\ stack = <<>>
    /\ state[event.self] = event.st0
    /\ state[event.self] = event.st

\* C7: respond in a state without response hook, go_to_state to a declared
\* non-default state without entry hook, and finish with a manner without
\* completion hook raise to the caller and leave the current state as it
\* was before the call.
C7_MissingHookIsFatal ==
    /\ (Did("respond", "start")
            /\ ~ hasattr(cls[event.self], "respond_from_" \o event.st))
           => FailedUntouched
    /\ (Did("go_to_state", "start") /\ ~ BadTarget(event.self, event.arg)
            /\ ~ hasattr(cls[event.self], "on_enter_" \o event.arg))
           => FailedUntouched
    /\ (Did("finish", "start")
            /\ ~ hasattr(cls[event.self], "finish_" \o event.arg))
           => FailedUntouched

\* finish failed for a manner without hook, in a state other than the
\* default
C7_Witness ==
    /\ Did("finish", "start")
    /\ FailedUntouched
    /\ state[event.self] # default_state[event.self]

\* C8 as stated: every conversation of oxycsbot that goes on for ever is in
\* 'waiting' between two turns again and again.
C8_AlwaysBackToWaiting ==
    IsOxycsbot(1) => []<>(Idle(1) /\ state[1] = "waiting")

\* C8 amended: oxycsbot has no terminal state (between two turns the current
\* state has a response hook, and no call raises), and 'waiting' stays
\* within reach: after two turns in a row tagged 'no' and neither 'yes' nor
\* 'hello' the current state is 'waiting'.  (Not every conversation returns: untagged
\* and 'yes' messages in turn cycle between unknown_benefit_1 and
\* increase_reason_1.)
C8_NoTerminalStateWaitingInReach ==
    \A o \in Objects :
        IsOxycsbot(o) =>
            /\ result.kind # "raise"
            /\ Idle(o) => /\ hasattr(cls[o], "respond_from_" \o state[o])
                          /\ declined[o] = 2 => state[o] = "waiting"

\* two 'no' turns in a row have brought the conversation from thoughts_1
\* over thoughts_2 back to 'waiting'
C8_Witness ==
    /\ Did("respond", "return")
    /\ IsOxycsbot(event.self)
    /\ Idle(event.self)
    /\ declined[event.self] = 2
    /\ event.st0 = "thoughts_2"
    /\ state[event.self] = "waiting"

\* C9 as stated: constructing with a default state that is not declared
\* prints the warning and completes, with the current state the default.
C9_ConstructionProceeds ==
    (event.op = "construct"
        /\ event.arg \notin Range(STATES(cls[event.self])))
        => /\ phase[event.self] = "ready"
           /\ \E i \in 1..Len(warnings) : warnings[i].kind = "default_state"
           /\ state[event.self] = event.arg
           /\ default_state[event.self] = event.arg

\* the validation pass of object o has run
Validated(o) == phase[o] # "class" /\ default_state[o] # None

\* C10: the validation pass warns about exactly the missing hooks: the entry
\* hook of every declared state but the default, the response hook of every
\* declared state; and it never stops construction, which completes unless
\* the tag table is malformed.
C10_WarningsAreTheMissingHooks ==
    \A o \in Objects :
        Validated(o) =>
            /\ \A s \in Range(STATES(cls[o])) \cup {default_state[o]} :
               \A prefix \in {"on_enter", "respond_from"} :
                   HookWarning(s, prefix) \in Range(warnings)
                       <=> /\ s \in Range(STATES(cls[o]))
                           /\ prefix = "on_enter" => s # default_state[o]
                           /\ ~ hasattr(cls[o], prefix \o "_" \o s)
            /\ \A i \in 1..Len(warnings) :
                   warnings[i].kind = "no_function"
                       => warnings[i].state \in Range(STATES(cls[o]))
            /\ phase[o] = "ready" \/ ~ _check_tags(TAGS_of(cls[o])).ok

\* a script with missing hooks was constructed with a declared default that
\* has neither hook: only its response hook is reported
C10_Witness ==
    /\ phase[1] = "ready"
    /\ default_state[1] = "confirm"
    /\ HookWarning("confirm", "respond_from") \in Range(warnings)
    /\ HookWarning("confirm", "on_enter") \notin Range(warnings)
    /\ HookWarning("ask", "respond_from") \in Range(warnings)


\* C11: the current state is written only by construction, go_to_state and
\* finish.  In every step: construction leaves the current state equal to
\* the default state; afterwards the default state never changes, a change
\* of the current state to a non-default value is the assignment of a
\* running go_to_state, a change to the default value is the assignment of a
\* running finish, and every other step (respond with its tagging, the
\* hooks, the returns) leaves the current state as it is.
C11_StateWrittenOnlyByPrimitives ==
    [][\A o \in Objects :
          /\ (phase[o] = "class" /\ phase'[o] = "ready")
                 => /\ state'[o] = default_state'[o]
                    /\ stack = <<>>
          /\ phase[o] # "class"
                 => /\ default_state'[o] = default_state[o]
                    /\ state'[o] # state[o]
                           => /\ Running(IF state'[o] # default_state[o]
                                         THEN "go_to_state" ELSE "finish",
                                         "assign")
                              /\ Top.self = o]_vars

\* go_to_state, called by a response hook, has just changed the current
\* state from the default to its target
C11_Witness ==
    /\ Did("go_to_state", "assign")
    /\ event.op = "return"
    /\ event.st = default_state[event.self]
    /\ state[event.self] # default_state[event.self]
    /\ lastGo[event.self] = state[event.self]
    /\ lastFinish[event.self].within = None

\* the response hook has just been called with the tag count of the message
Tagged == Running("respond_from", "start")

\* the count of tag t in a tag count
CountOf(counter, t) == IF t \in DOMAIN counter THEN counter[t] ELSE 0

\* the tags the table lists
TagsIn(table) == UNION {Range(table[k].tags.v) : k \in 1..Len(table)}

\* the entries of the table whose phrase is found in the message
MatchingEntries(table, message) ==
    {k \in 1..Len(table) :
        re_search(lower(table[k].phrase), lower(message))}

\* the table without its k-th entry
WithoutEntry(table, k) ==
    SubSeq(table, 1, k - 1) \o SubSeq(table, k + 1, Len(table))

\* C12: the tag count is the sum of the contributions of the matching
\* phrases, one for each tag a matching phrase lists; a matching phrase that
\* maps to two tags [t1, t2] contributes exactly 1 to t1, 1 to t2 and
\* nothing to any other tag (the count without that entry differs by just
\* that).
C12_MatchAddsOnePerTag ==
    Tagged =>
        LET table    == TAGS[cls[Top.self]]
            matching == MatchingEntries(table, Top.msg)
            listed   == {<<k, i>> \in (1..Len(table)) \X (1..2) :
                            k \in matching /\ i <= Len(table[k].tags.v)}
        IN  /\ \A k \in 1..Len(table) : Len(table[k].tags.v) <= 2
            /\ \A t \in TagsIn(table) \cup DOMAIN Top.tags :
                   /\ CountOf(Top.tags, t)
                          = Cardinality({p \in listed :
                                            table[p[1]].tags.v[p[2]] = t})
                   /\ t \in DOMAIN Top.tags => Top.tags[t] > 0
            /\ \A k \in matching :
                   Len(table[k].tags.v) = 2 =>
                       LET without == _get_tags(WithoutEntry(table, k), Top.msg)
                           t1 == table[k].tags.v[1]
                           t2 == table[k].tags.v[2]
                       IN  /\ t1 # t2
                           /\ \A t \in TagsIn(table) :
                                  CountOf(Top.tags, t) - CountOf(without, t)
                                      = IF t \in {t1, t2} THEN 1 ELSE 0

\* 'hello yes' was tagged with a table that maps 'hello' to the two tags
\* ['hello', 'greeting'] and 'yes' to ('yes',)
C12_Witness ==
    /\ Tagged
    /\ cls[Top.self] = "DraftBot"
    /\ Top.msg = <<"h", "e", "l", "l", "o", " ", "y", "e", "s">>
    /\ Top.tags = [t \in {"hello", "greeting", "yes"} |-> 1]

\* the phrase occurs in the message character for character
OccursIn(phrase, message) ==
    \E i \in 0..(Len(message) - Len(phrase)) :
        SubSeq(message, i + 1, i + Len(phrase)) = phrase

\* C13 as stated: a table phrase contributes to the tag count (the count
\* differs from the count without the entry) only when the phrase occurs
\* literally in the message, both lower-cased; a message in which no phrase
\* of the table occurs has an empty tag count.
C13_PhrasesMatchLiterally ==
    Tagged =>
        LET table  == TAGS[cls[Top.self]]
            occurs == {k \in 1..Len(table) :
                          OccursIn(lower(table[k].phrase), lower(Top.msg))}
        IN  /\ occurs = {} => Top.tags = EmptyCounter
            /\ \A k \in 1..Len(table) :
                   _get_tags(WithoutEntry(table, k), Top.msg) # Top.tags
                       => k \in occurs

\* the occurrence of a phrase of length n at offset i of the message is part
\* of a longer word: a word goes on across its first or its last character
PartOfLongerWord(message, i, n) ==
    \/ /\ i >= 1
       /\ message[i] \in WordChars
       /\ message[i + 1] \in WordChars
    \/ /\ i + n < Len(message)
       /\ message[i + n] \in WordChars
       /\ message[i + n + 1] \in WordChars

\* the offsets at which the phrase occurs in the message
Occurrences(phrase, message) ==
    {i \in 0..(Len(message) - Len(phrase)) :
        SubSeq(message, i + 1, i + Len(phrase)) = phrase}

\* C14: a table phrase (of literal characters, without '?') that occurs in
\* the lower-cased message only as part of longer words contributes nothing:
\* the tag count is the count without the entry.  The message 'this' gets
\* no tag from the oxycsbot table, which has the key 'hi'.
C14_NoPartialWordMatch ==
    Tagged =>
        LET table == TAGS[cls[Top.self]]
            msg   == lower(Top.msg)
        IN  /\ \A k \in 1..Len(table) :
                   LET phrase == lower(table[k].phrase)
                       at     == Occurrences(phrase, msg)
                   IN  (/\ "?" \notin Range(phrase)
                        /\ at # {}
                        /\ \A i \in at : PartOfLongerWord(msg, i, Len(phrase)))
                           => _get_tags(WithoutEntry(table, k), Top.msg)
                                  = Top.tags
            /\ (IsOxycsbot(Top.self) /\ Top.msg = <<"t", "h", "i", "s">>)
                   => Top.tags = EmptyCounter

\* 'this' was tagged with the oxycsbot table: the key 'hi' occurs in it, at
\* offset 1 and only as the end of the longer word, and the count is empty
C14_Witness ==
    /\ Tagged
    /\ IsOxycsbot(Top.self)
    /\ Top.msg = <<"t", "h", "i", "s">>
    /\ Occurrences(<<"h", "i">>, lower(Top.msg)) = {1}
    /\ PartOfLongerWord(lower(Top.msg), 1, 2)
    /\ \E k \in 1..Len(TAGS[cls[Top.self]]) :
           lower(TAGS[cls[Top.self]][k].phrase) = <<"h", "i">>
    /\ Top.tags = EmptyCounter

\* the table with every key written in lower case (as a sequence of items:
\* keys that become equal stay separate entries)
LowerKeys(table) ==
    [k \in 1..Len(table) |-> [table[k] EXCEPT !.phrase = lower(@)]]

\* the message with its first character in the other case
Capitalized(message) ==
    LET LowerToUpper == [c \in LowerLetters |->
                            CHOOSE u \in DOMAIN UpperToLower :
                                UpperToLower[u] = c]
    IN  [i \in 1..Len(message) |->
            IF i = 1 /\ message[i] \in LowerLetters
            THEN LowerToUpper[message[i]]
            ELSE IF i = 1 /\ message[i] \in DOMAIN UpperToLower
            THEN UpperToLower[message[i]]
            ELSE message[i]]

\* C15: tagging is case-insensitive on both sides.  Every probe message that
\* is equal to the tagged message after lower-casing, and the message with
\* its first letter in the other case, have the tag count of the tagged
\* message; and the count is the one obtained with every key of the table
\* written in lower case.
C15_CaseInsensitive ==
    Tagged =>
        LET table == TAGS[cls[Top.self]]
        IN  /\ \A m \in TagMessages :
                   lower(m) = lower(Top.msg)
                       => _get_tags(table, m) = Top.tags
            /\ _get_tags(table, Capitalized(Top.msg)) = Top.tags
            /\ _get_tags(LowerKeys(table), Top.msg) = Top.tags

\* 'HELLO hello' was tagged with the oxycsbot table and is counted for both
\* of the keys 'Hello' and 'hello', as 'hello hello' is
C15_Witness ==
    /\ Tagged
    /\ IsOxycsbot(Top.self)
    /\ Top.msg = <<"H", "E", "L", "L", "O", " ", "h", "e", "l", "l", "o">>
    /\ Top.tags = [t \in {"hello"} |-> 2]

\* the table value is a non-empty sequence (list or tuple) of tag
\* identifiers (strs)
IsTagSequence(value) ==
    /\ value.type \in {"list", "tuple"}
    /\ value.v # <<>>
    /\ "elem" \notin DOMAIN value

\* the table value is a single tag (a str)
IsSingleTag(value) == value.type = "str"

\* C16 as stated: once construction has completed without error, every
\* value of the tag table is a non-empty sequence of tag identifiers, a
\* single tag of the class body having become a one-element sequence; and
\* construction fails, with the error of _check_tags, for a table that has
\* a value that is neither a single tag nor such a sequence.
C16_TableNormalizedOrRejected ==
    \A o \in Objects :
        LET declared == TAGS_of(cls[o])
            table    == TAGS[cls[o]]
            wellFormed(k) == IsSingleTag(declared[k].tags)
                                 \/ IsTagSequence(declared[k].tags)
        IN  /\ phase[o] = "ready"
                => \A k \in 1..Len(table) :
                       /\ IsTagSequence(table[k].tags)
                       /\ IsSingleTag(declared[k].tags)
                              => table[k].tags.v = declared[k].tags.v
            /\ (Validated(o) /\ \E k \in 1..Len(declared) : ~ wellFormed(k))
                => /\ phase[o] = "failed"
                   /\ event.op = "construct"
                          => result = Raised("AssertionError")

\* C17: engine instances are isolated.  Whatever calls are made on the other
\* instance in between, an instance that is not running a call is in the
\* state that its own calls leave an engine that runs alone in, and a call
\* ends as it does there (the same response, or the same exception); and
\* from the first construction on the shared tag table is the normalized
\* table of the class body: the second construction and the respond calls
\* leave it as it is.
C17_InstancesAreIsolated ==
    /\ \A o \in Objects :
           /\ (phase[o] = "ready" /\ (stack = <<>> \/ stack[1].self # o))
                  => state[o] = alone[o]
           /\ phase[o] = "ready"
                  => TAGS[cls[o]] = _check_tags(TAGS_of(cls[o])).table
    /\ (stack = <<>> /\ event.op \in {"return", "raise"})
           => result = expected[event.self]

\* a respond call on the first engine has returned in a state in which the
\* second engine, which has also been called, is not
C17_Witness ==
    /\ Objects = {1, 2}
    /\ stack = <<>>
    /\ Did("respond", "return")
    /\ event.self = 1
    /\ phase[2] = "ready"
    /\ state[1] = "increase_reason_1"
    /\ state[2] = "thoughts_2"
    /\ result = expected[1]

\* the texts the hooks of oxycsbot return
oxycsbot_texts ==
    {on_enter_thoughts_1.arg, on_enter_increase_reason_1.arg,
     on_enter_thoughts_2.arg, on_enter_increase_reason_2.arg,
     finish_confused.arg, finish_hello.arg, finish_success.arg,
     finish_fail.arg, finish_reject.arg}

\* C18: in a conversation oxycsbot never violates the engine's contract:
\* construction completes, no call raises, every respond call returns one of
\* the texts of the script (never None), the current state is a declared
\* state that has a response hook, every go_to_state call in progress
\* targets a declared state other than the default that has an entry hook,
\* and every finish call in progress names a manner that has a finish hook.
C18_OxycsbotKeepsContract ==
    \A o \in Objects :
        (IsOxycsbot(o) /\ phase[o] # "class") =>
            /\ phase[o] = "ready"
            /\ result.kind # "raise"
            /\ state[o] \in Range(STATES(cls[o]))
            /\ hasattr(cls[o], "respond_from_" \o state[o])
            /\ (stack = <<>> /\ Did("respond", "return"))
                   => /\ result.kind = "return"
                      /\ result.val \in oxycsbot_texts
            /\ \A i \in 1..Len(stack) :
                   /\ stack[i].fn = "go_to_state"
                          => /\ stack[i].arg \in Range(STATES(cls[o]))
                             /\ stack[i].arg # default_state[o]
                             /\ hasattr(cls[o], "on_enter_" \o stack[i].arg)
                   /\ stack[i].fn = "finish"
                          => hasattr(cls[o], "finish_" \o stack[i].arg)

\* the conversation has gone through increase_reason_1 and thoughts_2 to
\* increase_reason_2 and was ended there with finish('reject')
C18_Witness ==
    /\ IsOxycsbot(1)
    /\ stack = <<>>
    /\ Did("respond", "return")
    /\ event.st0 = "increase_reason_2"
    /\ lastFinish[1] = [manner |-> "reject", within |-> None]
    /\ result = Returned(finish_reject.arg)
    /\ state[1] = "waiting"

\* the states of oxycsbot whose response hook tests 'yes' and then 'no'
YesThenNoStates ==
    {"thoughts_1", "increase_reason_1", "thoughts_2", "increase_reason_2"}

\* C19: in oxycsbot 'yes' takes precedence over 'no'.  In thoughts_1,
\* increase_reason_1, thoughts_2 and increase_reason_2, respond to a message
\* tagged both 'yes' and 'no' leaves the state and returns the text that
\* respond to the message 'yes', which is tagged 'yes' only, leaves and
\* returns in the same state.
C19_YesBeforeNo ==
    (/\ stack = <<>>
     /\ event.fn = "respond"
     /\ IsOxycsbot(event.self)
     /\ event.st0 \in YesThenNoStates
     /\ {"yes", "no"} \subseteq DOMAIN event.tags)
        => LET o    == event.self
               yes  == <<"y", "e", "s">>
               same == respond_alone(cls[o], default_state[o], TAGS[cls[o]],
                                     event.st0, yes)
           IN  /\ DOMAIN _get_tags(TAGS[cls[o]], yes) = {"yes"}
               /\ event.op = "return"
               /\ state[o] = same.st
               /\ result = same.res

\* 'absolutely not', tagged 'yes' for 'absolutely' and 'no' for 'absolutely
\* not', was answered in thoughts_2 with the move to increase_reason_2
C19_Witness ==
    /\ stack = <<>>
    /\ Did("respond", "return")
    /\ IsOxycsbot(event.self)
    /\ event.st0 = "thoughts_2"
    /\ event.tags = [t \in {"yes", "no"} |-> 1]
    /\ state[event.self] = "increase_reason_2"
    /\ result = Returned(on_enter_increase_reason_2.arg)

\* C20: the count of a tag is the number of table phrases carrying the tag
\* that are found in the message, however many times each is found, and
\* keys that are equal after lower-casing are separate phrases: with the
\* oxycsbot table, which has the keys 'Hello' and 'hello', the messages
\* 'hello' and 'hello hello' both have count 2 for the tag 'hello'.
C20_CountIsMatchingPhrases ==
    Tagged =>
        LET table    == TAGS[cls[Top.self]]
            matching == MatchingEntries(table, Top.msg)
            hello    == <<"h", "e", "l", "l", "o">>
        IN  /\ \A t \in TagsIn(table) \cup DOMAIN Top.tags :
                   CountOf(Top.tags, t)
                       = Cardinality({k \in matching :
                                         t \in Range(table[k].tags.v)})
            /\ (IsOxycsbot(Top.self)
                    /\ Top.msg \in {hello, hello \o <<" ">> \o hello})
                   => Top.tags = [t \in {"hello"} |-> 2]

\* 'hello hello' was tagged with the oxycsbot table: count 2, one for each
\* of the keys 'Hello' and 'hello', and not 4
C20_Witness ==
    /\ Tagged
    /\ IsOxycsbot(Top.self)
    /\ Top.msg = <<"h", "e", "l", "l", "o", " ", "h", "e", "l", "l", "o">>
    /\ Top.tags = [t \in {"hello"} |-> 2]
    /\ Cardinality(MatchingEntries(TAGS[cls[Top.self]], Top.msg)) = 2
====
